---- MODULE Spec2Model ----
(***************************************************************************)
(* A model of ss_subscription_svc: the Stripe adapter's bounded retry loop *)
(* (stripe_integration.py), the webhook endpoint (routers/stripe_router.py)*)
(* and the event processor that reconciles subscription records            *)
(* (stripe_event_processor.py).                                            *)
(*                                                                         *)
(* Requests are served one at a time: the handlers are `async def` bodies  *)
(* that never await between their first and last statement (time.sleep and *)
(* the SQLAlchemy calls are blocking), so on one event loop a handler runs *)
(* to completion before the next one starts.  The retry loop is modelled   *)
(* one iteration at a time so that its counter is visible in every state.  *)
(***************************************************************************)
EXTENDS Integers, Sequences, FiniteSets, TLC

\* ---------------------------------------------------------------- bounds

\* Largest retry budget a StripeIntegration is constructed with.
MaxRetries == 3

\* Cap of the ghost counter of identical event applications in a row.
MaxRun == 2

\* ------------------------------------------------------------- constants

Req == {"r1", "r2"}

\* max_retries is whatever int the constructor is given (no validation).
RetryBudgets == (0 - 1)..MaxRetries

AdapterOps == {"create", "update", "cancel"}

\* What one provider call (stripe.Subscription.create / modify / delete)
\* does: it returns the subscription or raises.
TransientErrors == {"AuthenticationError", "APIConnectionError"}
PermanentErrors == {"InvalidRequestError", "ValueError"}
ProviderOutcomes == {"ok"} \cup TransientErrors \cup PermanentErrors

Subscription == "subscription"
RetryExhausted == "Exception: Failed after retries."
NoResult == "none"

\* Subscription ids and the statuses a record may hold before this service
\* touches it.
SubIds == {"sub_1", "sub_2"}
InitStatuses == {"pending", "active", "cancelled"}

\* ------------------------------------------------------------- variables

VARIABLES
    store,    \* the subscriptions table: stripe_subscription_id -> status
    pc,       \* per request: "idle", "loop", "sleep", "done"
    kind,     \* per request: which operation it runs
    call,     \* per request: the adapter call's locals and its provider log
    hook,     \* per request: the webhook / process_event invocation
    last,     \* ghost: the latest process_event application to a record
    session,  \* per request: its Session's loaded record, where workers
              \* run handlers in parallel
    last_commit  \* ghost: the request whose commit succeeded last

vars == <<store, pc, kind, call, hook, last, session, last_commit>>

\* `def __init__(self, max_retries: int = 3, ...)`: what the endpoints,
\* which build StripeIntegration(), run with.
DefaultMaxRetries == 3

NoCall ==
    [max_retries |-> 0, attempt |-> 0, hist |-> <<>>, result |-> NoResult,
     endpoint |-> FALSE, provider |-> "none", code |-> 0]


\* Python's None, and the truthiness test `not x` on a str-or-None value.
None == "<None>"
Truthy(x) == x \notin {None, ""}

\* ----------------------------------------------------- the inbound event

Supported == {"invoice.payment_succeeded", "customer.subscription.deleted"}
EventTypes == {None, "", "unknown.event"} \cup Supported

\* event['data']: the key is absent (or holds no 'object'), it is null (so
\* the chained .get raises AttributeError), or it holds an object whose
\* 'subscription' is sub.
DataShapes == {"absent", "null", "object"}
SubValues == {None, ""} \cup SubIds

Events ==
    {e \in [type : EventTypes, data : DataShapes, sub : SubValues] :
        e.data # "object" => e.sub = None}

NoEvent == [type |-> "<no event>", data |-> "absent", sub |-> None]

\* What the request supplies in the Stripe-Signature header, and what
\* STRIPE_ENDPOINT_SECRET holds in the environment.
NotRead == "<not read>"
Headers == {None, "", "bad_sig", "good_sig"}
Secrets == {None, "", "whsec"}

NoHook ==
    [header |-> NotRead, secret |-> NotRead, verify_calls |-> 0,
     process_calls |-> 0, event |-> NoEvent, outcome |-> "none",
     queried |-> FALSE, committed |-> FALSE, rolled_back |-> FALSE,
     fault |-> "none", code |-> 0, detail |-> "", metadata |-> {}]

NoLast ==
    [type |-> "none", sub |-> None, outcome |-> "none", persist_ok |-> FALSE,
     fault |-> "none", before |-> None, status |-> None, first_status |-> None, run |-> 0,
     prev |-> "none"]

\* A Session that has loaded nothing: `loaded` is the status the query
\* returned, `pending` the status assigned to the loaded record.
NoSession == [loaded |-> None, pending |-> None]

\* ------------------------------------------------------------------ Init

Init ==
    /\ store \in UNION {[D -> InitStatuses] : D \in SUBSET SubIds}
    /\ pc = [r \in Req |-> "idle"]
    /\ kind = [r \in Req |-> "none"]
    /\ call = [r \in Req |-> NoCall]
    /\ hook = [r \in Req |-> NoHook]
    /\ last = NoLast
    /\ session = [r \in Req |-> NoSession]
    /\ last_commit = None

\* One handler at a time occupies the event loop.
LoopFree == \A q \in Req : pc[q] = "idle"

\* ------------------------------------------------ Provider Client Adapter

\* A loop that tests its bound only after the first pass.
LoopGuardAtLeastOnce(attempt, max_retries) ==
    attempt = 0 \/ attempt < max_retries

\* The loop test with its bound off by one.
LoopGuardInclusive(attempt, max_retries) == attempt <= max_retries

\* The loop test giving up one attempt early.
LoopGuardShort(attempt, max_retries) == attempt < max_retries - 1

\* `while attempt < self.max_retries`
LoopGuard(attempt, max_retries) == attempt < max_retries

\* A handler that catches every exception for a retry.
IsTransientAny(o) == o # "ok"

\* `except (stripe.error.AuthenticationError, stripe.error.APIConnectionError)`
IsTransient(o) == o \in TransientErrors

\* `attempt += 1`
NextAttempt(attempt) == attempt + 1

\* An endpoint without its `except ValueError` clause.
EndpointCodeNoValidation(op, result) ==
    IF result = Subscription THEN (IF op = "create" THEN 201 ELSE 200)
    ELSE 500

\* The status an endpoint answers with, from how the adapter call ended:
\* POST /subscription maps every exception to 500; GET, PUT and DELETE
\* /subscription/{id} map ValueError to 400 and the rest to 500.
EndpointCode(op, result) ==
    IF result = Subscription THEN (IF op = "create" THEN 201 ELSE 200)
    ELSE IF op # "create" /\ result = "ValueError" THEN 400
    ELSE 500

\* The answer of a call made by an endpoint (0: a direct call, no answer).
Answer(c, op, result) == IF c.endpoint THEN EndpointCode(op, result) ELSE 0

\* StripeIntegration(max_retries).create_subscription / update_subscription /
\* cancel_subscription is entered: `attempt = 0`.  The call is made by its
\* endpoint, on a StripeIntegration() with the default budget, or directly
\* on an instance of any budget.
StartCall(r) ==
    /\ LoopFree
    /\ pc[r] = "idle"
    /\ \E op \in AdapterOps, mr \in RetryBudgets, ep \in BOOLEAN :
        /\ ep => mr = DefaultMaxRetries
        /\ pc' = [pc EXCEPT ![r] = "loop"]
        /\ kind' = [kind EXCEPT ![r] = op]
        /\ call' = [call EXCEPT ![r] =
                        [NoCall EXCEPT !.max_retries = mr, !.endpoint = ep]]
        /\ UNCHANGED <<store, hook, last, session, last_commit>>

\* One pass of the loop body: the provider call and its three exits.
Attempt(r) ==
    /\ pc[r] = "loop"
    /\ kind[r] \in AdapterOps
    /\ LoopGuard(call[r].attempt, call[r].max_retries)
    /\ \E o \in ProviderOutcomes :
        LET exit == IF o = "ok" THEN "return"
                    ELSE IF IsTransient(o) THEN "retry" ELSE "raise"
            result == CASE exit = "return" -> Subscription
                        [] exit = "retry" -> NoResult
                        [] exit = "raise" -> o
        IN  /\ call' = [call EXCEPT ![r] =
                  [@ EXCEPT !.hist = Append(@, o),
                            !.attempt = IF exit = "retry" THEN NextAttempt(@) ELSE @,
                            !.result = result,
                            !.code = IF exit = "retry" THEN 0
                                     ELSE Answer(call[r], kind[r], result)]]
            /\ pc' = [pc EXCEPT ![r] = IF exit = "retry" THEN "sleep" ELSE "done"]
    /\ UNCHANGED <<store, kind, hook, last, session, last_commit>>

\* `time.sleep(self.retry_delay)` returns (retry_delay >= 0).
Wake(r) ==
    /\ pc[r] = "sleep"
    /\ pc' = [pc EXCEPT ![r] = "loop"]
    /\ UNCHANGED <<store, kind, call, hook, last, session, last_commit>>

\* Falling out of the loop without raising.
ExhaustedSilently == Subscription

\* `raise Exception('Failed to ... after retries.')`
ExhaustedResult == RetryExhausted

\* The loop test fails.
Exhaust(r) ==
    /\ pc[r] = "loop"
    /\ kind[r] \in AdapterOps
    /\ ~LoopGuard(call[r].attempt, call[r].max_retries)
    /\ call' = [call EXCEPT ![r] =
          [@ EXCEPT !.result = ExhaustedResult,
                    !.code = Answer(call[r], kind[r], ExhaustedResult)]]
    /\ pc' = [pc EXCEPT ![r] = "done"]
    /\ UNCHANGED <<store, kind, hook, last, session, last_commit>>

\* Whether class StripeIntegration defines retrieve_subscription: it
\* defines __init__, create_subscription, update_subscription,
\* cancel_subscription and process_webhook_event only.
HasRetrieveSubscription == FALSE

\* `stripe_integration.retrieve_subscription(subscription_id)`, where the
\* provider would answer o: without the method the attribute lookup raises.
retrieve_subscription(o) ==
    IF ~HasRetrieveSubscription THEN "AttributeError"
    ELSE IF o = "ok" THEN Subscription ELSE o

\* GET /subscription/{subscription_id}, the whole handler.
GetSubscription(r) ==
    /\ LoopFree
    /\ pc[r] = "idle"
    /\ \E o \in ProviderOutcomes :
        LET result == retrieve_subscription(o) IN
        /\ pc' = [pc EXCEPT ![r] = "done"]
        /\ kind' = [kind EXCEPT ![r] = "get"]
        /\ call' = [call EXCEPT ![r] =
              [NoCall EXCEPT !.max_retries = DefaultMaxRetries,
                             !.endpoint = TRUE, !.provider = o,
                             !.result = result,
                             !.code = EndpointCode("get", result)]]
        /\ UNCHANGED <<store, hook, last, session, last_commit>>

\* The caller has its result (or error); the request is over.
Return(r) ==
    /\ pc[r] = "done"
    /\ pc' = [pc EXCEPT ![r] = "idle"]
    /\ kind' = [kind EXCEPT ![r] = "none"]
    /\ call' = [call EXCEPT ![r] = NoCall]
    /\ hook' = [hook EXCEPT ![r] = NoHook]
    /\ session' = [session EXCEPT ![r] = NoSession]
    /\ last_commit' = IF last_commit = r THEN None ELSE last_commit
    /\ UNCHANGED <<store, last>>

\* ------------------------------------------------------- process_event

\* The provider's spelling written in place of this service's.
NewStatusProviderSpelling(type) ==
    IF type = "invoice.payment_succeeded" THEN "active" ELSE "canceled"

\* `subscription.status = 'active'` / `subscription.status = 'cancelled'`
NewStatus(type) ==
    IF type = "invoice.payment_succeeded" THEN "active" ELSE "cancelled"

\* A transition that treats 'cancelled' as final.
MutateCancelledIsTerminal(current, type) ==
    IF current = "cancelled" THEN "cancelled" ELSE NewStatus(type)

\* A transition that flips a record already in the target status.
MutateFlip(current, type) ==
    IF current = NewStatus(type) THEN "pending" ELSE NewStatus(type)

\* The found record's status is assigned, whatever it was.
Mutate(current, type) == NewStatus(type)

\* `if event_type is None`: an empty type passes.
MissingTypeNoneOnly(e) == e.type = None

\* `if not event_type`
MissingType(e) == ~Truthy(e.type)

\* What a process_event(event, db) call does against the table st, given
\* whether the query and the commit succeed in the database: how it ends,
\* the table afterwards, and which session calls it made.
Ended(how, st, q, c, rb) ==
    [outcome |-> how, store |-> st, queried |-> q, committed |-> c,
     rolled_back |-> rb]

\* An UPDATE that lost its WHERE clause.
FlushUnfiltered(st, sub_id, status) == [x \in DOMAIN st |-> status]

\* `db.add(subscription)` and the flush of `db.commit()`: the session's
\* view of the table with the found record's new status.
Flush(st, sub_id, status) == [st EXCEPT ![sub_id] = status]

\* The failed commit left as it is.
RollbackSkipped(before, mutated) == mutated

\* `db.rollback()`: the session's view is the table before the mutation.
Rollback(before, mutated) == before

\* A lookup miss that inserts the record.
NotFoundUpsert(st, sub_id, type) ==
    [x \in DOMAIN st \cup {sub_id} |->
        IF x = sub_id THEN NewStatus(type) ELSE st[x]]

\* `else: logging.info(... not found ...)`: nothing is written.
NotFound(st, sub_id, type) == st

ProcessSupported(e, st, query_ok, commit_ok) ==
    IF e.data = "null" THEN Ended("AttributeError", st, FALSE, FALSE, FALSE)
    ELSE LET sub_id == IF e.data = "object" THEN e.sub ELSE None IN
        IF ~Truthy(sub_id) THEN Ended("ValueError", st, FALSE, FALSE, FALSE)
        ELSE IF ~query_ok THEN Ended("QueryError", st, TRUE, FALSE, FALSE)
        ELSE IF sub_id \in DOMAIN st
             THEN LET mutated ==
                        Flush(st, sub_id, Mutate(st[sub_id], e.type)) IN
                  IF commit_ok
                  THEN Ended("ok", mutated, TRUE, TRUE, FALSE)
                  ELSE Ended("CommitError", Rollback(st, mutated),
                             TRUE, FALSE, TRUE)
        ELSE Ended("ok", NotFound(st, sub_id, e.type), TRUE, FALSE, FALSE)

\* A dispatcher that rejects the types it does not handle.
process_event_strict(e, st, query_ok, commit_ok) ==
    IF MissingType(e) THEN Ended("ValueError", st, FALSE, FALSE, FALSE)
    ELSE IF e.type \in Supported THEN ProcessSupported(e, st, query_ok, commit_ok)
    ELSE Ended("ValueError", st, FALSE, FALSE, FALSE)

process_event(e, st, query_ok, commit_ok) ==
    IF MissingType(e) THEN Ended("ValueError", st, FALSE, FALSE, FALSE)
    ELSE IF e.type \in Supported THEN ProcessSupported(e, st, query_ok, commit_ok)
    ELSE Ended("ok", st, FALSE, FALSE, FALSE)

\* Which database call of a process_event call raised, if one did: the
\* query (when one was made) or the commit (when the record was found).
Applies(e, st) ==
    /\ e.type \in Supported
    /\ e.data = "object"
    /\ e.sub \in DOMAIN st

Fault(e, st, res, query_ok, commit_ok) ==
    IF ~res.queried THEN "none"
    ELSE IF ~query_ok THEN "query"
    ELSE IF Applies(e, st) /\ ~commit_ok THEN "commit"
    ELSE "none"

\* Ghost: the run of identical applications (same supported type, same
\* existing record) that a process_event call extends or starts.
NextLast(e, st, query_ok, commit_ok, res) ==
    IF ~Applies(e, st) THEN NoLast
    ELSE LET again == /\ last.type = e.type
                      /\ last.sub = e.sub
                      /\ last.outcome = "ok"
         IN [type |-> e.type, sub |-> e.sub, outcome |-> res.outcome,
             persist_ok |-> query_ok /\ commit_ok,
             fault |-> IF ~query_ok THEN "query"
                       ELSE IF ~commit_ok THEN "commit" ELSE "none",
             before |-> st[e.sub],
             status |-> res.store[e.sub],
             first_status |-> IF again THEN last.first_status
                              ELSE res.store[e.sub],
             run |-> IF again
                     THEN (IF last.run < MaxRun THEN last.run + 1 ELSE MaxRun)
                     ELSE 1,
             prev |-> IF last.sub = e.sub /\ last.outcome = "ok"
                      THEN last.type ELSE "none"]

\* A direct call process_event(event, db), as the repository's tests make.
ProcessEventCall(r) ==
    /\ LoopFree
    /\ pc[r] = "idle"
    /\ \E e \in Events, query_ok \in BOOLEAN, commit_ok \in BOOLEAN :
        LET res == process_event(e, store, query_ok, commit_ok) IN
        /\ pc' = [pc EXCEPT ![r] = "done"]
        /\ kind' = [kind EXCEPT ![r] = "event"]
        /\ store' = res.store
        /\ hook' = [hook EXCEPT ![r] =
              [NoHook EXCEPT !.process_calls = 1, !.event = e,
                             !.outcome = res.outcome, !.queried = res.queried,
                             !.committed = res.committed,
                             !.rolled_back = res.rolled_back,
                             !.fault = Fault(e, store, res, query_ok,
                                             commit_ok)]]
        /\ last' = NextLast(e, store, query_ok, commit_ok, res)
        /\ UNCHANGED <<call, session, last_commit>>

\* ------------------------------------------------- the webhook endpoint

\* stripe.Webhook.construct_event(payload, sig_header, endpoint_secret):
\* the signature is checked first, then the payload is parsed.
construct_event(header, payload_ok) ==
    IF header # "good_sig" THEN "SignatureVerificationError"
    ELSE IF ~payload_ok THEN "ValueError"
    ELSE "event"

InvalidSignature == "Exception: Invalid signature."

\* A verifier that logs the signature failure and hands the event on.
process_webhook_event_lenient(header, payload_ok, e) ==
    [calls |-> 1, raised |-> IF payload_ok THEN "none" ELSE "ValueError",
     event |-> IF payload_ok THEN e ELSE NoEvent]

\* StripeIntegration.process_webhook_event: one construct_event call; a
\* signature failure is raised anew as Exception('Invalid signature.'), any
\* other failure is re-raised, otherwise the event is returned.
process_webhook_event(header, payload_ok, e) ==
    LET got == construct_event(header, payload_ok) IN
    [calls |-> 1,
     raised |-> CASE got = "event" -> "none"
                  [] got = "SignatureVerificationError" -> InvalidSignature
                  [] OTHER -> got,
     event |-> IF got = "event" THEN e ELSE NoEvent]

\* `if not sig_header`
MissingHeader(header) == ~Truthy(header)

\* The secret's check left out.
MissingSecretUnchecked(secret) == FALSE

\* `if not endpoint_secret`
MissingSecret(secret) == ~Truthy(secret)

\* Metadata that reports a status only for a record the table holds.
MetadataIfTracked(e) ==
    IF e.type \in Supported /\ e.sub \in DOMAIN store
    THEN {<<"subscription_id", e.sub>>, <<"status", NewStatus(e.type)>>}
    ELSE {}

\* The metadata the endpoint derives from the event after process_event.
Metadata(e) ==
    IF e.type \in Supported
    THEN {<<"subscription_id", IF e.data = "object" THEN e.sub ELSE None>>,
          <<"status", NewStatus(e.type)>>}
    ELSE {}

Rejected(h, code, detail) == [h EXCEPT !.code = code, !.detail = detail]

\* The processing error's own text given to the client.
ProcessFailureDetailVerbatim(outcome) == outcome

\* `raise HTTPException(status_code=400, detail="Error processing webhook
\* event")`: one detail for every exception process_event raises.
ProcessFailureDetail(outcome) == "Error processing webhook event"

\* A handler that catches only the malformed-event error.
ProcessingFailedValueErrorOnly(outcome) == outcome = "ValueError"

\* `try: process_event(event, db) ... except Exception as e:` every
\* exception of process_event takes the except branch.
ProcessingFailed(outcome) == outcome # "ok"

\* POST /webhook, the whole handler: the two gates, the verification, the
\* event processing, the response.  Returns the request's record and the
\* table afterwards.
process_webhook(header, secret, payload_ok, e, st, query_ok, commit_ok) ==
    LET h0 == [NoHook EXCEPT !.header = header] IN
    IF MissingHeader(header)
    THEN [hook |-> Rejected(h0, 400, "Missing Stripe-Signature header"),
          store |-> st, processed |-> FALSE]
    ELSE LET h1 == [h0 EXCEPT !.secret = secret] IN
    IF MissingSecret(secret)
    THEN [hook |-> Rejected(h1, 500, "Stripe endpoint secret not configured"),
          store |-> st, processed |-> FALSE]
    ELSE LET v == process_webhook_event(header, payload_ok, e)
             h2 == [h1 EXCEPT !.verify_calls = v.calls, !.event = v.event] IN
    IF v.raised # "none"
    THEN [hook |-> Rejected(h2, 400, v.raised), store |-> st,
          processed |-> FALSE]
    ELSE LET res == process_event(v.event, st, query_ok, commit_ok)
             h3 == [h2 EXCEPT !.process_calls = 1, !.outcome = res.outcome,
                              !.queried = res.queried,
                              !.committed = res.committed,
                              !.rolled_back = res.rolled_back,
                              !.fault = Fault(v.event, st, res, query_ok,
                                              commit_ok)] IN
    IF ProcessingFailed(res.outcome)
    THEN [hook |-> Rejected(h3, 400, ProcessFailureDetail(res.outcome)),
          store |-> res.store, processed |-> TRUE]
    ELSE [hook |-> [h3 EXCEPT !.code = 200,
                              !.metadata = Metadata(v.event)],
          store |-> res.store, processed |-> TRUE]

ProcessWebhook(r) ==
    /\ LoopFree
    /\ pc[r] = "idle"
    /\ \E header \in Headers, secret \in Secrets, payload_ok \in BOOLEAN,
          e \in Events, query_ok \in BOOLEAN, commit_ok \in BOOLEAN :
        LET out == process_webhook(header, secret, payload_ok, e, store,
                                   query_ok, commit_ok) IN
        /\ pc' = [pc EXCEPT ![r] = "done"]
        /\ kind' = [kind EXCEPT ![r] = "webhook"]
        /\ store' = out.store
        /\ hook' = [hook EXCEPT ![r] = out.hook]
        /\ last' = IF out.processed
                   THEN NextLast(out.hook.event, store, query_ok, commit_ok,
                                 [outcome |-> out.hook.outcome, store |-> out.store])
                   ELSE last
        /\ UNCHANGED <<call, session, last_commit>>

\* ------------------------------------- webhooks on parallel workers
\* Each worker process runs one handler at a time, with the Session that
\* `Depends(get_db)` gives the request; the workers share only the table.
\* The handler's database calls, the query and the commit, are then steps
\* that another worker's steps can fall between.

\* A flush that writes the assigned status whether or not it changed.
FlushAlways(st, sub_id, loaded, status) == Flush(st, sub_id, status)

\* `subscription.status = ...; db.add(subscription); db.commit()`: the
\* flush emits an UPDATE for the record only when the assigned status
\* differs from the status the Session loaded.
FlushChanged(st, sub_id, loaded, status) ==
    IF status = loaded THEN st ELSE Flush(st, sub_id, status)

\* The response once process_event has ended, from the request's record.
Respond(h) ==
    IF ProcessingFailed(h.outcome)
    THEN Rejected(h, 400, ProcessFailureDetail(h.outcome))
    ELSE [h EXCEPT !.code = 200, !.metadata = Metadata(h.event)]

\* The handler up to the call of process_event: the header and secret
\* gates and the verification.
WebhookReceive(r) ==
    /\ pc[r] = "idle"
    /\ \E header \in Headers, secret \in Secrets, payload_ok \in BOOLEAN,
          e \in Events :
        LET h0 == [NoHook EXCEPT !.header = header]
            h1 == [h0 EXCEPT !.secret = secret]
            v == process_webhook_event(header, payload_ok, e)
            h2 == [h1 EXCEPT !.verify_calls = v.calls, !.event = v.event]
            h == IF MissingHeader(header)
                 THEN Rejected(h0, 400, "Missing Stripe-Signature header")
                 ELSE IF MissingSecret(secret)
                 THEN Rejected(h1, 500,
                               "Stripe endpoint secret not configured")
                 ELSE IF v.raised # "none" THEN Rejected(h2, 400, v.raised)
                 ELSE h2
        IN  /\ hook' = [hook EXCEPT ![r] = h]
            /\ pc' = [pc EXCEPT ![r] = IF h.code = 0 THEN "verified"
                                       ELSE "done"]
            /\ kind' = [kind EXCEPT ![r] = "webhook"]
            /\ UNCHANGED <<store, call, last, session, last_commit>>

\* process_event up to and including the query: an event that needs no
\* query ends here, and so does a query that raises or finds no record;
\* a found record is loaded into the Session and assigned its status.
WebhookLookup(r) ==
    /\ pc[r] = "verified"
    /\ \E query_ok \in BOOLEAN :
        LET e == hook[r].event
            res == process_event(e, store, query_ok, TRUE)
            found == res.queried /\ query_ok /\ e.sub \in DOMAIN store
            h == [hook[r] EXCEPT !.process_calls = 1, !.queried = res.queried]
        IN  IF found
            THEN /\ session' = [session EXCEPT ![r] =
                        [loaded |-> store[e.sub],
                         pending |-> Mutate(store[e.sub], e.type)]]
                 /\ hook' = [hook EXCEPT ![r] = h]
                 /\ pc' = [pc EXCEPT ![r] = "found"]
                 /\ UNCHANGED <<store, kind, call, last, last_commit>>
            ELSE /\ hook' = [hook EXCEPT ![r] =
                        Respond([h EXCEPT !.outcome = res.outcome,
                                          !.fault = Fault(e, store, res,
                                                          query_ok, TRUE)])]
                 /\ pc' = [pc EXCEPT ![r] = "done"]
                 /\ UNCHANGED <<store, kind, call, last, session,
                                last_commit>>

\* `db.commit()` and what follows it: the flush and commit, or the
\* rollback of a commit that raised, then the response.
WebhookCommit(r) ==
    /\ pc[r] = "found"
    /\ \E commit_ok \in BOOLEAN :
        LET e == hook[r].event
            flushed == FlushChanged(store, e.sub, session[r].loaded,
                                    session[r].pending)
        IN  /\ store' = IF commit_ok THEN flushed
                        ELSE Rollback(store, flushed)
            /\ hook' = [hook EXCEPT ![r] =
                   Respond([hook[r] EXCEPT
                       !.outcome = IF commit_ok THEN "ok" ELSE "CommitError",
                       !.committed = commit_ok,
                       !.rolled_back = ~commit_ok,
                       !.fault = IF commit_ok THEN "none" ELSE "commit"])]
            /\ last_commit' = IF commit_ok THEN r ELSE last_commit
            /\ pc' = [pc EXCEPT ![r] = "done"]
            /\ UNCHANGED <<kind, call, last, session>>

\* ------------------------------------------------------------------ Next

Next ==
    \E r \in Req :
        \/ StartCall(r)
        \/ GetSubscription(r)
        \/ Attempt(r)
        \/ Wake(r)
        \/ Exhaust(r)
        \/ Return(r)
        \/ ProcessEventCall(r)
        \/ ProcessWebhook(r)

Spec == Init /\ [][Next]_vars

\* Two webhook requests, each handled by its own worker.
WorkersNext ==
    \E r \in Req :
        \/ WebhookReceive(r)
        \/ WebhookLookup(r)
        \/ WebhookCommit(r)

WorkersSpec == Init /\ [][WorkersNext]_vars

\* The same program with the scheduling the runtime gives: a handler that
\* has started keeps running until it returns.
FairSpec ==
    /\ Spec
    /\ \A r \in Req : WF_vars(Attempt(r) \/ Wake(r) \/ Exhaust(r))

TypeOK ==
    /\ DOMAIN store \subseteq SubIds
    /\ pc \in [Req -> {"idle", "loop", "sleep", "verified", "found", "done"}]
    /\ kind \in [Req -> {"none", "event", "webhook", "get"} \cup AdapterOps]
    /\ \A r \in Req :
        /\ call[r].max_retries \in RetryBudgets
        /\ call[r].attempt \in 0..MaxRetries
        /\ hook[r].code \in {0, 200, 400, 500}
        /\ call[r].code \in {0, 200, 201, 400, 500}

\* ------------------------------------------------ the adapter's retries

IsAdapterCall(r) == kind[r] \in AdapterOps

AllTransient(hist) == \A i \in 1..Len(hist) : hist[i] \in TransientErrors

Max0(n) == IF n < 0 THEN 0 ELSE n

\* C1: with max_retries >= 1, while every provider call has failed with a
\* transient error the call has returned no success value and has made at
\* most max_retries provider calls; once it is over it has made exactly
\* max_retries calls and failed with the retry-exhausted error, which is
\* none of the transient errors.
C1_TransientExhaustsBudget ==
    \A r \in Req :
        (/\ IsAdapterCall(r)
         /\ call[r].max_retries >= 1
         /\ AllTransient(call[r].hist))
        => /\ call[r].result # Subscription
           /\ Len(call[r].hist) <= call[r].max_retries
           /\ pc[r] = "done" =>
                /\ Len(call[r].hist) = call[r].max_retries
                /\ call[r].result = RetryExhausted
                /\ call[r].result \notin TransientErrors

C1_Witness ==
    \E r \in Req :
        /\ IsAdapterCall(r)
        /\ pc[r] = "done"
        /\ call[r].max_retries >= 1
        /\ AllTransient(call[r].hist)
        /\ Len(call[r].hist) = call[r].max_retries
        /\ call[r].result = RetryExhausted

\* C2: a provider call that fails with a permanent error is the call's last
\* one: the call is over, and its failure is that same error.
C2_PermanentFailsAtOnce ==
    \A r \in Req :
        IsAdapterCall(r) =>
            \A i \in 1..Len(call[r].hist) :
                call[r].hist[i] \in PermanentErrors
                => /\ i = Len(call[r].hist)
                   /\ pc[r] = "done"
                   /\ call[r].result = call[r].hist[i]

C2_Witness ==
    \E r \in Req :
        /\ IsAdapterCall(r)
        /\ pc[r] = "done"
        /\ Len(call[r].hist) = 2
        /\ call[r].hist[1] \in TransientErrors
        /\ call[r].hist[2] \in PermanentErrors
        /\ call[r].result = call[r].hist[2]

\* C3: after k < max_retries transient failures and nothing else the call is
\* still running (it will call the provider again); a provider success is
\* the call's last provider call, follows transient failures only, and ends
\* the call with the provider's result after attempt + 1 calls.
C3_SuccessAfterTransients ==
    \A r \in Req :
        IsAdapterCall(r) =>
            /\ (AllTransient(call[r].hist)
                    /\ Len(call[r].hist) < call[r].max_retries)
               => (pc[r] \in {"loop", "sleep"} /\ call[r].result = NoResult)
            /\ \A i \in 1..Len(call[r].hist) :
                  call[r].hist[i] = "ok"
                  => /\ i = Len(call[r].hist)
                     /\ AllTransient(SubSeq(call[r].hist, 1, i - 1))
                     /\ i - 1 < call[r].max_retries
                     /\ call[r].attempt = i - 1
                     /\ pc[r] = "done"
                     /\ call[r].result = Subscription

C3_Witness ==
    \E r \in Req :
        /\ kind[r] = "create"
        /\ call[r].max_retries = 3
        /\ call[r].hist = <<"APIConnectionError", "APIConnectionError", "ok">>
        /\ pc[r] = "done"
        /\ call[r].result = Subscription

\* C4 (as stated): the attempt counter and the number of provider calls
\* never exceed max_retries.
C4_BoundedByMaxRetries ==
    \A r \in Req :
        IsAdapterCall(r) =>
            /\ call[r].attempt <= call[r].max_retries
            /\ Len(call[r].hist) <= call[r].max_retries

\* C4 (amended): every adapter call that has started ends, and the attempt
\* counter and the number of provider calls never exceed max_retries, or 0
\* when max_retries is negative.
C4_BoundedAndTerminates ==
    /\ [](\A r \in Req :
            IsAdapterCall(r) =>
                /\ call[r].attempt <= Max0(call[r].max_retries)
                /\ Len(call[r].hist) <= Max0(call[r].max_retries))
    /\ \A r \in Req :
            (IsAdapterCall(r) /\ pc[r] \in {"loop", "sleep"}) ~> (pc[r] = "done")

C4_Witness ==
    \E r \in Req :
        /\ IsAdapterCall(r)
        /\ pc[r] = "done"
        /\ call[r].max_retries = MaxRetries
        /\ Len(call[r].hist) = MaxRetries
        /\ call[r].hist[MaxRetries] = "ok"

\* --------------------------------------------------- the webhook's gates

\* Request r's handler ran in this step.
Handled(r) == pc[r] = "idle" /\ pc'[r] = "done"

NothingProcessed(r) ==
    /\ hook'[r].process_calls = 0
    /\ hook'[r].outcome = "none"
    /\ store' = store
    /\ last' = last

\* C5: a webhook whose signature does not verify (a header and a secret
\* are there) is answered 400 with the invalid-signature error after one
\* verification, without a process_event call and with every record as it
\* was.
C5_BadSignatureRejected ==
    [][\A r \in Req :
        (/\ Handled(r)
         /\ kind'[r] = "webhook"
         /\ hook'[r].header = "bad_sig"
         /\ Truthy(hook'[r].secret))
        => /\ hook'[r].verify_calls = 1
           /\ hook'[r].code = 400
           /\ hook'[r].detail = InvalidSignature
           /\ NothingProcessed(r)]_vars

C5_Witness ==
    \E r \in Req :
        /\ kind[r] = "webhook"
        /\ pc[r] = "done"
        /\ hook[r].header = "bad_sig"
        /\ hook[r].secret = "whsec"
        /\ hook[r].verify_calls = 1
        /\ hook[r].code = 400
        /\ hook[r].detail = InvalidSignature

\* C6: a webhook without a signature header is answered 400, one with a
\* header but without a configured secret 500; in both cases the verifier
\* and process_event are not called and every record is as it was.
C6_GatesBeforeVerifier ==
    [][\A r \in Req :
        (Handled(r) /\ kind'[r] = "webhook")
        => /\ hook'[r].header \in {None, ""}
              => /\ hook'[r].code = 400
                 /\ hook'[r].verify_calls = 0
                 /\ NothingProcessed(r)
           /\ (Truthy(hook'[r].header) /\ hook'[r].secret \in {None, ""})
              => /\ hook'[r].code = 500
                 /\ hook'[r].verify_calls = 0
                 /\ NothingProcessed(r)]_vars

C6_Witness ==
    \E r \in Req :
        /\ kind[r] = "webhook"
        /\ pc[r] = "done"
        /\ hook[r].header = "good_sig"
        /\ hook[r].secret = None
        /\ hook[r].code = 500
        /\ hook[r].verify_calls = 0
        /\ hook[r].process_calls = 0

\* ------------------------------------------------------ event processing

\* Request r's process_event call ran in this step.
Processed(r) == Handled(r) /\ hook'[r].process_calls = 1

\* C7: when the same supported event is applied to the same existing
\* record again, right after an application that succeeded, and the
\* database accepts the query and the commit, the call returns without
\* error and the record's status is what it was after the first
\* application.
C7_ReapplyingIsIdempotent ==
    (last.run >= 2 /\ last.persist_ok)
    => /\ last.outcome = "ok"
       /\ last.status = last.first_status
       /\ store[last.sub] = last.first_status

C7_Witness ==
    /\ last.run >= 2
    /\ last.persist_ok
    /\ last.outcome = "ok"
    /\ last.type = "invoice.payment_succeeded"
    /\ store[last.sub] = "active"

\* C8: after a process_event call for a supported event whose record
\* exists, with the query and the commit succeeding, the record's status
\* is 'active' for invoice.payment_succeeded and 'cancelled' for
\* customer.subscription.deleted, whatever it was before.
C8_StatusAfterCommit ==
    (last.type \in Supported /\ last.persist_ok)
    => /\ last.outcome = "ok"
       /\ last.sub \in DOMAIN store
       /\ last.type = "invoice.payment_succeeded" => store[last.sub] = "active"
       /\ last.type = "customer.subscription.deleted"
            => store[last.sub] = "cancelled"

C8_Witness ==
    /\ last.type = "customer.subscription.deleted"
    /\ last.persist_ok
    /\ last.before = "active"
    /\ store[last.sub] = "cancelled"

\* C9: a process_event call on an event with a type that is not one of the
\* two supported ones returns without error, and makes no query, no
\* commit, no rollback and no change to any record.
C9_UnknownTypeIsNoOp ==
    [][\A r \in Req :
        (/\ Processed(r)
         /\ Truthy(hook'[r].event.type)
         /\ hook'[r].event.type \notin Supported)
        => /\ hook'[r].outcome = "ok"
           /\ ~hook'[r].queried
           /\ ~hook'[r].committed
           /\ ~hook'[r].rolled_back
           /\ store' = store]_vars

C9_Witness ==
    \E r \in Req :
        /\ kind[r] = "event"
        /\ pc[r] = "done"
        /\ hook[r].event.type = "unknown.event"
        /\ hook[r].event.sub \in DOMAIN store
        /\ hook[r].outcome = "ok"

\* C10: a process_event call on an event whose type is missing or empty
\* fails with ValueError, whatever its data, and changes no record.
C10_MissingTypeRejected ==
    [][\A r \in Req :
        (Processed(r) /\ hook'[r].event.type \in {None, ""})
        => /\ hook'[r].outcome = "ValueError"
           /\ ~hook'[r].queried
           /\ ~hook'[r].committed
           /\ store' = store]_vars

C10_Witness ==
    \E r \in Req :
        /\ kind[r] = "event"
        /\ pc[r] = "done"
        /\ hook[r].event.type = ""
        /\ hook[r].event.data = "object"
        /\ hook[r].event.sub \in DOMAIN store
        /\ hook[r].outcome = "ValueError"

\* C11: when the commit of a found record's new status fails, the call
\* ends with the commit's error and the record's status is what it was
\* before the event.
C11_CommitFailureRollsBack ==
    (last.type \in Supported /\ last.fault = "commit")
    => /\ last.outcome = "CommitError"
       /\ last.status = last.before
       /\ store[last.sub] = last.before

C11_Witness ==
    /\ last.type = "invoice.payment_succeeded"
    /\ last.fault = "commit"
    /\ last.outcome = "CommitError"
    /\ last.before = "pending"
    /\ store[last.sub] = "pending"

\* C12: a process_event call on a supported event whose subscription id
\* has no record (the lookup itself succeeding) returns without error,
\* commits and rolls back nothing, and leaves the table, its set of ids
\* included, as it was.
C12_UntrackedIsNoOp ==
    [][\A r \in Req :
        (/\ Processed(r)
         /\ hook'[r].event.type \in Supported
         /\ hook'[r].event.data = "object"
         /\ Truthy(hook'[r].event.sub)
         /\ hook'[r].event.sub \notin DOMAIN store
         /\ hook'[r].fault # "query")
        => /\ hook'[r].outcome = "ok"
           /\ ~hook'[r].committed
           /\ ~hook'[r].rolled_back
           /\ DOMAIN store' = DOMAIN store
           /\ store' = store]_vars

C12_Witness ==
    \E r \in Req :
        /\ pc[r] = "done"
        /\ hook[r].process_calls = 1
        /\ hook[r].event.type = "customer.subscription.deleted"
        /\ hook[r].event.sub \in SubIds \ DOMAIN store
        /\ hook[r].queried
        /\ hook[r].outcome = "ok"
        /\ DOMAIN store # {}

\* ------------------------------------------------ the endpoints' answers

\* C13: the metadata of a 200 webhook response is the event's subscription
\* id with 'active' for invoice.payment_succeeded, with 'cancelled' for
\* customer.subscription.deleted, and empty for any other type, whatever
\* the table holds.
C13_MetadataFromEventOnly ==
    \A r \in Req :
        (kind[r] = "webhook" /\ hook[r].code = 200)
        => LET e == hook[r].event IN
           hook[r].metadata =
              CASE e.type = "invoice.payment_succeeded" ->
                      {<<"subscription_id", e.sub>>, <<"status", "active">>}
                [] e.type = "customer.subscription.deleted" ->
                      {<<"subscription_id", e.sub>>, <<"status", "cancelled">>}
                [] OTHER -> {}

C13_Witness ==
    \E r \in Req :
        /\ kind[r] = "webhook"
        /\ hook[r].code = 200
        /\ hook[r].event.type = "invoice.payment_succeeded"
        /\ hook[r].event.sub \in SubIds \ DOMAIN store
        /\ <<"status", "active">> \in hook[r].metadata

\* C14: while a request served by an endpoint waits retry_delay in the
\* adapter's retry loop, the handling of another request can start.
C14_WaitDoesNotBlock ==
    \A r \in Req :
        (IsAdapterCall(r) /\ call[r].endpoint /\ pc[r] = "sleep")
        => \E q \in Req \ {r} :
              ENABLED (StartCall(q) \/ GetSubscription(q) \/ ProcessWebhook(q))

\* C15: a get-subscription request for which the provider would return
\* the subscription is answered 200 with that subscription; a validation
\* error is answered 400 and any other failure 500.
C15_GetSubscriptionAnswers ==
    \A r \in Req :
        (kind[r] = "get" /\ pc[r] = "done")
        => /\ call[r].provider = "ok"
              => (call[r].code = 200 /\ call[r].result = Subscription)
           /\ call[r].result = "ValueError" => call[r].code = 400
           /\ call[r].result \notin {Subscription, "ValueError"}
              => call[r].code = 500

\* C16: an update or cancel endpoint answers an adapter failure with 400
\* when it is a ValueError and with 500 otherwise, retry exhaustion
\* included; the create endpoint answers every adapter failure with 500.
C16_AdapterFailureAnswers ==
    \A r \in Req :
        (IsAdapterCall(r) /\ call[r].endpoint /\ pc[r] = "done"
           /\ call[r].result # Subscription)
        => IF kind[r] \in {"update", "cancel"} /\ call[r].result = "ValueError"
           THEN call[r].code = 400
           ELSE call[r].code = 500

C16_Witness ==
    \E r \in Req :
        /\ kind[r] = "update" /\ call[r].endpoint /\ pc[r] = "done"
        /\ Len(call[r].hist) > 0
        /\ call[r].result = "ValueError" /\ call[r].code = 400

\* C17: a webhook that passed verification and whose process_event raised,
\* whatever the exception, is answered 400 with one and the same detail,
\* never 200.
C17_ProcessFailureIsGeneric400 ==
    \A r \in Req :
        (kind[r] = "webhook" /\ hook[r].process_calls = 1
           /\ hook[r].outcome # "ok")
        => /\ hook[r].code = 400
           /\ hook[r].detail = "Error processing webhook event"
           /\ hook[r].metadata = NoHook.metadata

C17_Witness ==
    \E r \in Req :
        /\ kind[r] = "webhook" /\ hook[r].process_calls = 1
        /\ hook[r].fault = "commit" /\ hook[r].rolled_back
        /\ hook[r].code = 400
        /\ hook[r].detail = "Error processing webhook event"

\* C18: whenever a database call of process_event raises, the record
\* lookup or the commit, rollback has been called by the time the error
\* reaches the caller.
C18_PersistenceFailureRollsBack ==
    \A r \in Req :
        (hook[r].process_calls = 1 /\ hook[r].fault \in {"query", "commit"})
        => hook[r].rolled_back

\* C19: process_event on an event of a supported type that carries no
\* subscription id, or an empty one, raises the malformed-event error
\* (ValueError) without a record lookup, and the table is as it was.
C19_MissingSubscriptionIdIsMalformed ==
    [][\A r \in Req :
          (/\ hook[r].process_calls = 0
           /\ hook'[r].process_calls = 1
           /\ hook'[r].event.type \in Supported
           /\ ~(hook'[r].event.data = "object"
                  /\ Truthy(hook'[r].event.sub)))
          => /\ hook'[r].outcome = "ValueError"
             /\ ~hook'[r].queried
             /\ store' = store]_vars

\* C20: no step creates or deletes a record; a record whose status changes
\* is the one named by the event of the process_event call made in that
\* step, and its new status is 'active' or 'cancelled'.  Hence, after any
\* sequence of calls, the ids are the initial ones and every status is its
\* initial value, 'active' or 'cancelled'.
C20_OnlyTheNamedRecordChanges ==
    [][/\ DOMAIN store' = DOMAIN store
       /\ \A id \in DOMAIN store :
            store'[id] # store[id]
            => /\ store'[id] \in {"active", "cancelled"}
               /\ \E r \in Req :
                    /\ hook[r].process_calls = 0
                    /\ hook'[r].process_calls = 1
                    /\ hook'[r].event.sub = id]_vars

C20_Witness ==
    /\ last.outcome = "ok"
    /\ last.before = "pending"
    /\ store[last.sub] \in {"active", "cancelled"}
    /\ \E id \in DOMAIN store : id # last.sub /\ store[id] = "pending"

\* C22: a process_event call that commits a supported event for an existing
\* record leaves the record with the status of that event's type, whatever
\* the record's status was and whichever events were processed before; in
\* particular invoice.payment_succeeded on a 'cancelled' record sets it to
\* 'active'.
C22_LastEventDecides ==
    [][\A r \in Req :
          (/\ Processed(r)
           /\ hook'[r].event.type \in Supported
           /\ hook'[r].event.sub \in DOMAIN store
           /\ hook'[r].committed)
          => /\ hook'[r].outcome = "ok"
             /\ store'[hook'[r].event.sub] =
                  (IF hook'[r].event.type = "invoice.payment_succeeded"
                   THEN "active" ELSE "cancelled")
             /\ (store[hook'[r].event.sub] = "cancelled"
                   /\ hook'[r].event.type = "invoice.payment_succeeded")
                => store'[hook'[r].event.sub] = "active"]_vars

C22_Witness ==
    /\ last.type = "invoice.payment_succeeded"
    /\ last.prev = "customer.subscription.deleted"
    /\ last.outcome = "ok"
    /\ last.before = "cancelled"
    /\ store[last.sub] = "active"

\* C24: an adapter constructed with max_retries <= 0 makes no provider
\* call in create_subscription, update_subscription or cancel_subscription,
\* never waits, never returns a success value, and ends with the
\* retry-exhausted error.
C24_NoBudgetNoCall ==
    \A r \in Req :
        (IsAdapterCall(r) /\ call[r].max_retries <= 0)
        => /\ call[r].hist = <<>>
           /\ call[r].attempt = 0
           /\ pc[r] # "sleep"
           /\ call[r].result # Subscription
           /\ pc[r] = "done" => call[r].result = RetryExhausted

C24_Witness ==
    \E r \in Req :
        /\ kind[r] = "cancel"
        /\ call[r].max_retries = 0
        /\ pc[r] = "done"
        /\ call[r].hist = <<>>
        /\ call[r].result = RetryExhausted

\* ------------------------------------------- webhooks on parallel workers

\* The status a supported event stands for.
StatusOf(r) ==
    IF hook[r].event.type = "invoice.payment_succeeded" THEN "active"
    ELSE "cancelled"

\* Two answered webhook requests that carried different supported events
\* for the same existing subscription, with no database call failing.
Racing(a, b) ==
    /\ a # b
    /\ pc[a] = "done" /\ pc[b] = "done"
    /\ kind[a] = "webhook" /\ kind[b] = "webhook"
    /\ hook[a].event.type \in Supported
    /\ hook[b].event.type \in Supported
    /\ hook[a].event.type # hook[b].event.type
    /\ hook[a].event.sub = hook[b].event.sub
    /\ hook[a].event.sub \in DOMAIN store
    /\ hook[a].fault = "none" /\ hook[b].fault = "none"

Wrote(r) == session[r].pending # session[r].loaded

Answered200(r) ==
    /\ kind'[r] = "webhook"
    /\ hook[r].code = 0
    /\ hook'[r].code = 200

Tracked(r) ==
    /\ hook'[r].event.type \in Supported
    /\ hook'[r].event.sub \in DOMAIN store

\* C21 as stated: a webhook request is answered 200 only when the
\* verification succeeded and process_event returned without error; when
\* moreover the event is a supported one whose subscription has a record,
\* the commit succeeded and the record's status at the moment of that
\* commit is the status the response's metadata reports.
C21_OkOnlyAfterCommit ==
    [][\A r \in Req :
          Answered200(r)
          => /\ hook'[r].verify_calls = 1
             /\ hook'[r].header = "good_sig"
             /\ hook'[r].process_calls = 1
             /\ hook'[r].outcome = "ok"
             /\ Tracked(r)
                => /\ hook'[r].committed
                   /\ ~hook'[r].rolled_back
                   /\ <<"status", store'[hook'[r].event.sub]>>
                        \in hook'[r].metadata]_vars

\* C21, amended: as above, but the record's status at the moment of the
\* commit is the reported one provided the commit wrote the record or the
\* record still had the status the request looked up (as it always has when
\* requests are handled one at a time).
C21_OkOnlyAfterCommitUnlessStale ==
    [][\A r \in Req :
          Answered200(r)
          => /\ hook'[r].verify_calls = 1
             /\ hook'[r].header = "good_sig"
             /\ hook'[r].process_calls = 1
             /\ hook'[r].outcome = "ok"
             /\ Tracked(r)
                => /\ hook'[r].committed
                   /\ ~hook'[r].rolled_back
                   /\ (\/ session[r].pending # session[r].loaded
                       \/ store[hook'[r].event.sub] = session[r].loaded)
                      => <<"status", store'[hook'[r].event.sub]>>
                           \in hook'[r].metadata]_vars

C21_Witness ==
    \E r \in Req, q \in Req :
        /\ kind[r] = "webhook" /\ hook[r].code = 200
        /\ hook[r].event.type = "customer.subscription.deleted"
        /\ hook[r].event.sub \in DOMAIN store
        /\ hook[r].committed
        /\ session[r].loaded = "active"
        /\ <<"status", "cancelled">> \in hook[r].metadata
        /\ store[hook[r].event.sub] = "cancelled"
        /\ q # r /\ pc[q] = "found"
        /\ hook[q].event.sub = hook[r].event.sub

====
